---- MODULE Spec2Model ----
(***************************************************************************)
(* Model of rust-primer/module_5/mod_5_exercises/src/solution.rs:          *)
(*   - read_write(): ten reader threads and one writer loop sharing an     *)
(*     Arc<Mutex<i32>> (lines 51-75);                                      *)
(*   - counter()/incr(): the mutex-protected Counter { count: i32 }        *)
(*     (lines 29-42).  The bodies of incr() and counter() are not in the   *)
(*     source (they are TODO stubs); their steps are modelled from the     *)
(*     specification, sections 4.1 and 6.                                  *)
(* One behaviour runs one of the two routines (variable demo).             *)
(***************************************************************************)
EXTENDS Integers, Sequences, FiniteSets, TLC

\* ---- bounds of the model -------------------------------------------------
\* The loop limits of read_write() (10 readers, 20 reads each, 20 writes) are
\* scaled down to keep the interleavings enumerable.
NumReaders == 2
ReaderIters == 2
WriterIters == 3
\* Largest increment count n per actor tried for counter().
MaxIncr == 2

\* ---- program constants ---------------------------------------------------
\* Counter.count is an i32.
I32Max == 2147483647
I32Min == -I32Max - 1
\* Mutex::new(0)
InitialValue == 0

Readers == 1..NumReaders
CActors == {"main", "worker"}
\* Initial values tried for the Counter.
InitVals == {0, 1, I32Max - 1}

PanicStates == {"panic_println", "panic_poison", "panic_join", "panic_overflow"}
Panicked(p) == p \in PanicStates

VARIABLES
  demo,            \* which routine this behaviour runs: "counter" | "read_write"
  locked,          \* the Mutex is held by some guard
  poisoned,        \* the Mutex's poison flag
  \* read_write()
  val,             \* the i32 inside the Mutex
  mpc,             \* position of the calling thread in read_write()
  spawned,         \* readers spawned so far (_i of the loop at line 55)
  wj,              \* completed iterations of the writer loop (_j, line 66)
  joined,          \* handles joined so far (loop at line 72)
  rpc,             \* position of each reader thread
  rj,              \* completed iterations of each reader's loop (_j, line 58)
  obs,             \* history: the values each reader printed, in order
  wlog,            \* history: the values the writer printed, in order
  incs,            \* history: number of completed executions of *val += 1
  strong,          \* strong count of the Arc that owns the Mutex
  \* counter()
  v0,              \* initial value of Counter.count
  n,               \* increments per actor
  overflow_checks, \* the build panics on i32 overflow (debug) or wraps (release)
  count,           \* Counter.count
  cpc,             \* position of the calling thread and of the worker
  ci,              \* completed incr() calls of each actor
  tmp,             \* the value each actor loaded inside incr()
  order,           \* history: the actors in the order of their increments
  printed          \* history: the final values printed by counter()

rwvars == <<val, mpc, spawned, wj, joined, rpc, rj, obs, wlog, incs, strong>>
cvars == <<v0, n, overflow_checks, count, cpc, ci, tmp, order, printed>>
vars == <<demo, locked, poisoned, rwvars, cvars>>

\* ---- the Mutex, as read_write() uses it ------------------------------------
\* CanLockNoExclusion, PoisonErrorIgnored and GuardLeaked are faulty variants
\* of the three definitions that follow them.
CanLockNoExclusion == TRUE

\* lock() blocks while another guard exists.
CanLock == ~locked

PoisonErrorIgnored == FALSE

\* lock() returns Err(PoisonError) when the poison flag is set, and unwrap()
\* panics on it.
PoisonError == poisoned

GuardLeaked == TRUE

\* The state of the Mutex once a guard went out of scope: unlocked.
LockedAfterGuardDrop == FALSE

\* ---- the Arc, as read_write() uses it --------------------------------------
\* A faulty variant of StrongAfterClone: the clone is not counted.
StrongCloneNotCounted(s) == s

\* lock.clone() adds an owner.
StrongAfterClone(s) == s + 1

\* Dropping a handle (the end of a closure or of read_write(), or unwinding)
\* removes an owner; the Mutex is destroyed when none is left.
StrongAfterDrop(s) == s - 1

\* ---- read_write() ----------------------------------------------------------
\* `for _j in 0..20` of the writer: the first position, or past the loop.
WriterEntry == IF WriterIters > 0 THEN "wlock" ELSE "join"
\* `for _j in 0..20` of a reader.
ReaderEntry == IF ReaderIters > 0 THEN "lock" ELSE "done"

\* WriterIncValueByTwo and WriterIncValueDown are faulty variants of
\* WriterIncValue, WriterLoopAgainOneMore of WriterLoopAgain and
\* JoinReadyNoWait of JoinReady.
WriterIncValueByTwo(v) == v + 2

WriterIncValueDown(v) == v - 1

\* *val += 1
WriterIncValue(v) == v + 1

WriterLoopAgainOneMore(j) == j < WriterIters + 1

\* The writer loop runs while _j < 20.
WriterLoopAgain(j) == j < WriterIters

JoinReadyNoWait(r) == TRUE

\* handle.join() returns once the thread has terminated (normally or by panic).
JoinReady(r) == rpc[r] = "done" \/ Panicked(rpc[r])

InitRW ==
  /\ val = InitialValue
  /\ mpc = IF NumReaders > 0 THEN "spawn" ELSE WriterEntry
  /\ spawned = 0 /\ wj = 0 /\ joined = 0
  /\ rpc = [r \in Readers |-> "unspawned"]
  /\ rj = [r \in Readers |-> 0]
  /\ obs = [r \in Readers |-> <<>>]
  /\ wlog = <<>>
  /\ incs = 0
  /\ strong = 1

OffRW ==
  /\ val = InitialValue
  /\ mpc = "off"
  /\ spawned = 0 /\ wj = 0 /\ joined = 0
  /\ rpc = [r \in Readers |-> "off"]
  /\ rj = [r \in Readers |-> 0]
  /\ obs = [r \in Readers |-> <<>>]
  /\ wlog = <<>>
  /\ incs = 0
  /\ strong = 0

\* lines 55-64: clone the Arc, spawn one reader, push its handle.
Spawn ==
  /\ mpc = "spawn"
  /\ spawned < NumReaders
  /\ rpc' = [rpc EXCEPT ![spawned + 1] = ReaderEntry]
  /\ spawned' = spawned + 1
  /\ mpc' = IF spawned + 1 < NumReaders THEN "spawn" ELSE WriterEntry
  /\ strong' = IF ReaderEntry = "done"
                 THEN StrongAfterDrop(StrongAfterClone(strong))
                 ELSE StrongAfterClone(strong)
  /\ UNCHANGED <<demo, locked, poisoned, val, wj, joined, rj, obs, wlog, incs, cvars>>

\* line 59: reader_lock.lock().unwrap()
ReaderLock(r) ==
  /\ rpc[r] = "lock"
  /\ CanLock
  /\ IF PoisonError
       THEN /\ rpc' = [rpc EXCEPT ![r] = "panic_poison"]
            /\ strong' = StrongAfterDrop(strong)
            /\ UNCHANGED locked
       ELSE /\ rpc' = [rpc EXCEPT ![r] = "print"]
            /\ locked' = TRUE
            /\ UNCHANGED strong
  /\ UNCHANGED <<demo, poisoned, val, mpc, spawned, wj, joined, rj, obs, wlog, incs, cvars>>

\* line 60: println!("Read value as {}", *r)
ReaderPrint(r) ==
  /\ rpc[r] = "print"
  /\ obs' = [obs EXCEPT ![r] = Append(@, val)]
  /\ rpc' = [rpc EXCEPT ![r] = "unlock"]
  /\ UNCHANGED <<demo, locked, poisoned, val, mpc, spawned, wj, joined, rj, wlog, incs, strong, cvars>>

\* line 60: println! panics when the write to stdout fails; the guard r is
\* dropped while the thread unwinds, which poisons and releases the Mutex.
ReaderPrintPanic(r) ==
  /\ rpc[r] = "print"
  /\ rpc' = [rpc EXCEPT ![r] = "panic_println"]
  /\ strong' = StrongAfterDrop(strong)
  /\ poisoned' = TRUE
  /\ locked' = FALSE
  /\ UNCHANGED <<demo, val, mpc, spawned, wj, joined, rj, obs, wlog, incs, cvars>>

\* line 61: the guard r goes out of scope; next iteration, or the closure ends
\* and drops reader_lock.
ReaderUnlock(r) ==
  /\ rpc[r] = "unlock"
  /\ locked' = LockedAfterGuardDrop
  /\ rj' = [rj EXCEPT ![r] = @ + 1]
  /\ rpc' = [rpc EXCEPT ![r] = IF rj[r] + 1 < ReaderIters THEN "lock" ELSE "done"]
  /\ strong' = IF rj[r] + 1 < ReaderIters THEN strong ELSE StrongAfterDrop(strong)
  /\ UNCHANGED <<demo, poisoned, val, mpc, spawned, wj, joined, obs, wlog, incs, cvars>>

\* line 67: lock.lock().unwrap()
WriterLock ==
  /\ mpc = "wlock"
  /\ CanLock
  /\ IF PoisonError
       THEN /\ mpc' = "panic_poison"
            /\ strong' = StrongAfterDrop(strong)
            /\ UNCHANGED locked
       ELSE /\ mpc' = "winc"
            /\ locked' = TRUE
            /\ UNCHANGED strong
  /\ UNCHANGED <<demo, poisoned, val, spawned, wj, joined, rpc, rj, obs, wlog, incs, cvars>>

\* line 68: *val += 1
WriterInc ==
  /\ mpc = "winc"
  /\ val' = WriterIncValue(val)
  /\ incs' = incs + 1
  /\ mpc' = "wprint"
  /\ UNCHANGED <<demo, locked, poisoned, spawned, wj, joined, rpc, rj, obs, wlog, strong, cvars>>

\* line 69: println!("Incremented value by 1 to {}", *val)
WriterPrint ==
  /\ mpc = "wprint"
  /\ wlog' = Append(wlog, val)
  /\ mpc' = "wunlock"
  /\ UNCHANGED <<demo, locked, poisoned, val, spawned, wj, joined, rpc, rj, obs, incs, strong, cvars>>

\* line 69: println! panics; the guard val is dropped during unwinding.
WriterPrintPanic ==
  /\ mpc = "wprint"
  /\ mpc' = "panic_println"
  /\ strong' = StrongAfterDrop(strong)
  /\ poisoned' = TRUE
  /\ locked' = FALSE
  /\ UNCHANGED <<demo, val, spawned, wj, joined, rpc, rj, obs, wlog, incs, cvars>>

\* line 70: the guard val goes out of scope; next iteration or the join loop.
WriterUnlock ==
  /\ mpc = "wunlock"
  /\ locked' = LockedAfterGuardDrop
  /\ wj' = wj + 1
  /\ mpc' = IF WriterLoopAgain(wj + 1) THEN "wlock" ELSE "join"
  /\ UNCHANGED <<demo, poisoned, val, spawned, joined, rpc, rj, obs, wlog, incs, strong, cvars>>

\* line 73: handle.join().unwrap(), handles in spawn order.
Join ==
  /\ mpc = "join"
  /\ joined < NumReaders
  /\ JoinReady(joined + 1)
  /\ IF Panicked(rpc[joined + 1])
       THEN /\ mpc' = "panic_join"
            /\ strong' = StrongAfterDrop(strong)
            /\ UNCHANGED joined
       ELSE /\ joined' = joined + 1
            /\ UNCHANGED <<mpc, strong>>
  /\ UNCHANGED <<demo, locked, poisoned, val, spawned, wj, rpc, rj, obs, wlog, incs, cvars>>

\* line 75: the join loop is over; read_write() returns and drops lock.
Return ==
  /\ mpc = "join"
  /\ joined = NumReaders
  /\ mpc' = "returned"
  /\ strong' = StrongAfterDrop(strong)
  /\ UNCHANGED <<demo, locked, poisoned, val, spawned, wj, joined, rpc, rj, obs, wlog, incs, cvars>>

\* ---- counter() and incr() --------------------------------------------------
\* A faulty variant of AfterLoop: the calling thread does not join the worker.
AfterLoopNoJoin(a) == IF a = "main" THEN "print" ELSE "done"

\* Where an actor goes when its `n` calls of incr() are over.
AfterLoop(a) == IF a = "main" THEN "join" ELSE "done"
\* The first position of an actor's loop of n calls of incr().
LoopEntry(a) == IF n > 0 THEN "lock" ELSE AfterLoop(a)

\* LockedAfterIncrKept is a faulty variant of LockedAfterIncr.
LockedAfterIncrKept == TRUE

\* The state of the Mutex after incr() returns: its guard has been dropped.
LockedAfterIncr == FALSE

\* The value incr() stores: the loaded count plus one, in i32 (wrapping where
\* the build does not check for overflow).
IncrValue(t) == IF t = I32Max THEN I32Min ELSE t + 1

InitCounter ==
  /\ v0 \in InitVals
  /\ n \in 0..MaxIncr
  /\ overflow_checks \in BOOLEAN
  /\ count = v0
  /\ cpc = [a \in CActors |-> IF a = "main" THEN "spawn" ELSE "unspawned"]
  /\ ci = [a \in CActors |-> 0]
  /\ tmp = [a \in CActors |-> 0]
  /\ order = <<>>
  /\ printed = <<>>

OffCounter ==
  /\ v0 = 0 /\ n = 0 /\ overflow_checks = FALSE
  /\ count = 0
  /\ cpc = [a \in CActors |-> "off"]
  /\ ci = [a \in CActors |-> 0]
  /\ tmp = [a \in CActors |-> 0]
  /\ order = <<>>
  /\ printed = <<>>

\* counter(): spawn a thread to call incr() n times.
CSpawn ==
  /\ cpc["main"] = "spawn"
  /\ cpc' = [a \in CActors |-> LoopEntry(a)]
  /\ UNCHANGED <<demo, locked, poisoned, rwvars, v0, n, overflow_checks, count, ci, tmp, order, printed>>

\* A faulty variant of IncrLock: incr() goes on without taking the lock.
IncrNoLock(a) ==
  /\ cpc[a] = "lock"
  /\ cpc' = [cpc EXCEPT ![a] = "load"]
  /\ UNCHANGED <<demo, locked, poisoned, rwvars, v0, n, overflow_checks, count, ci, tmp, order, printed>>

\* incr(): counter.lock().unwrap()
IncrLock(a) ==
  /\ cpc[a] = "lock"
  /\ CanLock
  /\ IF PoisonError
       THEN /\ cpc' = [cpc EXCEPT ![a] = "panic_poison"]
            /\ UNCHANGED locked
       ELSE /\ cpc' = [cpc EXCEPT ![a] = "load"]
            /\ locked' = TRUE
  /\ UNCHANGED <<demo, poisoned, rwvars, v0, n, overflow_checks, count, ci, tmp, order, printed>>

\* incr(): count += 1 reads the field ...
IncrLoad(a) ==
  /\ cpc[a] = "load"
  /\ tmp' = [tmp EXCEPT ![a] = count]
  /\ cpc' = [cpc EXCEPT ![a] = "store"]
  /\ UNCHANGED <<demo, locked, poisoned, rwvars, v0, n, overflow_checks, count, ci, order, printed>>

\* ... and writes it back plus one.  At i32::MAX the addition panics in a
\* build with overflow checks (the guard is dropped while unwinding, which
\* poisons the Mutex) and wraps in a build without them.
IncrStore(a) ==
  /\ cpc[a] = "store"
  /\ IF tmp[a] = I32Max /\ overflow_checks
       THEN /\ cpc' = [cpc EXCEPT ![a] = "panic_overflow"]
            /\ poisoned' = TRUE
            /\ locked' = FALSE
            /\ UNCHANGED <<count, order>>
       ELSE /\ count' = IncrValue(tmp[a])
            /\ order' = Append(order, a)
            /\ cpc' = [cpc EXCEPT ![a] = "unlock"]
            /\ UNCHANGED <<locked, poisoned>>
  /\ UNCHANGED <<demo, rwvars, v0, n, overflow_checks, ci, tmp, printed>>

\* incr() returns: its guard is dropped.
IncrUnlock(a) ==
  /\ cpc[a] = "unlock"
  /\ locked' = LockedAfterIncr
  /\ ci' = [ci EXCEPT ![a] = @ + 1]
  /\ cpc' = [cpc EXCEPT ![a] = IF ci[a] + 1 < n THEN "lock" ELSE AfterLoop(a)]
  /\ UNCHANGED <<demo, poisoned, rwvars, v0, n, overflow_checks, count, tmp, order, printed>>

\* counter(): join the spawned thread.
CJoin ==
  /\ cpc["main"] = "join"
  /\ cpc["worker"] = "done" \/ Panicked(cpc["worker"])
  /\ cpc' = [cpc EXCEPT !["main"] =
               IF Panicked(cpc["worker"]) THEN "panic_join" ELSE "print"]
  /\ UNCHANGED <<demo, locked, poisoned, rwvars, v0, n, overflow_checks, count, ci, tmp, order, printed>>

\* counter(): print the final value, read under the lock, and return.
CPrint ==
  /\ cpc["main"] = "print"
  /\ CanLock
  /\ IF PoisonError
       THEN /\ cpc' = [cpc EXCEPT !["main"] = "panic_poison"]
            /\ UNCHANGED printed
       ELSE /\ printed' = Append(printed, count)
            /\ cpc' = [cpc EXCEPT !["main"] = "returned"]
  /\ UNCHANGED <<demo, locked, poisoned, rwvars, v0, n, overflow_checks, count, ci, tmp, order>>

\* ---- specifications ---------------------------------------------------------
Init ==
  /\ demo \in {"counter", "read_write"}
  /\ locked = FALSE
  /\ poisoned = FALSE
  /\ IF demo = "read_write" THEN InitRW /\ OffCounter ELSE OffRW /\ InitCounter

\* The steps of a run in which no write to stdout fails.
NextNoFail ==
  \/ Spawn
  \/ \E r \in Readers : ReaderLock(r) \/ ReaderPrint(r) \/ ReaderUnlock(r)
  \/ WriterLock \/ WriterInc \/ WriterPrint \/ WriterUnlock
  \/ Join
  \/ Return
  \/ CSpawn
  \/ \E a \in CActors : IncrLock(a) \/ IncrLoad(a) \/ IncrStore(a) \/ IncrUnlock(a)
  \/ CJoin
  \/ CPrint

Next ==
  \/ NextNoFail
  \/ \E r \in Readers : ReaderPrintPanic(r)
  \/ WriterPrintPanic

Spec == Init /\ [][Next]_vars

\* Runs without a fatal error: every write to stdout succeeds, and a build with
\* overflow checks is not started where the 2n increments would overflow.
InitFair == Init /\ (overflow_checks => v0 <= I32Max - 2 * n)

\* The scheduler runs some thread that can take a step.
FairSpec == InitFair /\ [][NextNoFail]_vars /\ WF_vars(NextNoFail)

\* ---- properties --------------------------------------------------------------
ReaderHolds(r) == rpc[r] \in {"print", "unlock"}
WriterHolds == mpc \in {"winc", "wprint", "wunlock"}
InIncr(a) == cpc[a] \in {"load", "store", "unlock"}
\* counter(): both actors made their n calls of incr() and the worker is joined.
CounterJoined == demo = "counter" /\ cpc["main"] \in {"print", "returned"}
Occurrences(seq, a) == Cardinality({i \in DOMAIN seq : seq[i] = a})
Interleaved(seq) ==
  \E i \in DOMAIN seq : /\ i + 2 \in DOMAIN seq
                        /\ seq[i] = seq[i + 2]
                        /\ seq[i + 1] # seq[i]

\* C1 (as stated): for any initial value v0 and any n, once both actors made
\* their n calls of incr() and the worker is joined, count equals v0 + 2n.
C1_SumAnyInitialValue ==
  CounterJoined => (v0 <= I32Max - 2 * n /\ count = v0 + 2 * n)

\* C1 (amended): the same for every v0 and n with v0 + 2n <= i32::MAX, in every
\* interleaving: no increment is lost.
C1_SumNoLostUpdate ==
  (CounterJoined /\ v0 <= I32Max - 2 * n) => count = v0 + 2 * n

\* A run of counter() that returned after the two actors' increments alternated.
C1_Witness ==
  /\ demo = "counter" /\ cpc["main"] = "returned"
  /\ n = MaxIncr /\ v0 = 1 /\ count = v0 + 2 * n
  /\ Interleaved(order)

\* C2: every value a reader printed lies in 0..WriterIters (0..20 in the source)
\* and is the initial value plus a whole number of increments the writer had
\* completed.
C2_ObservedCommitted ==
  \A r \in Readers : \A i \in DOMAIN obs[r] :
    /\ obs[r][i] \in 0..WriterIters
    /\ \E k \in 0..incs : obs[r][i] = InitialValue + k

\* Readers saw the initial value, an intermediate value and the final value.
C2_Witness ==
  /\ \E r \in Readers : \E i \in DOMAIN obs[r] : obs[r][i] = InitialValue
  /\ \E r \in Readers : \E i \in DOMAIN obs[r] : obs[r][i] = 1
  /\ \E r \in Readers : \E i \in DOMAIN obs[r] : obs[r][i] = WriterIters

C4_WriterExcludesReaders ==
  /\ WriterHolds => \A r \in Readers : ~ReaderHolds(r)
  /\ Cardinality({w \in {"main"} : WriterHolds}) <= 1

\* The writer holds the lock while a reader waits for it.
C4_Witness ==
  WriterHolds /\ \E r \in Readers : rpc[r] = "lock"

\* C5: read access is shared: a reader that asks for the lock while only
\* another reader holds it gets it, so that two readers hold it together.
C5_ReadersShare ==
  \A r1, r2 \in Readers :
    (r1 # r2 /\ ReaderHolds(r1) /\ ~WriterHolds /\ rpc[r2] = "lock")
      => ENABLED ReaderLock(r2)

\* What the code does instead: at most one reader holds the lock at a time.
AtMostOneReaderHolds == Cardinality({r \in Readers : ReaderHolds(r)}) <= 1

\* C6: once the Mutex is poisoned, every actor that leaves a lock() call leaves
\* it by a panic, no actor holds a guard, and no value is printed any more.
C6_PoisonIsFatal ==
  [][poisoned =>
       /\ \A r \in Readers :
            (rpc[r] = "lock" /\ rpc'[r] # "lock") => rpc'[r] = "panic_poison"
       /\ (mpc = "wlock" /\ mpc' # "wlock") => mpc' = "panic_poison"
       /\ \A a \in CActors :
            (cpc[a] = "lock" /\ cpc'[a] # "lock") => cpc'[a] = "panic_poison"
       /\ (cpc["main"] = "print" /\ cpc'["main"] # "print")
            => cpc'["main"] = "panic_poison"
       /\ \A r \in Readers : ~ReaderHolds(r)'
       /\ ~WriterHolds'
       /\ \A a \in CActors : ~InIncr(a)'
       /\ obs' = obs /\ wlog' = wlog /\ printed' = printed]_vars

\* A reader's println! failed under the lock and the writer then met the
\* poisoned Mutex.
C6_Witness ==
  /\ poisoned
  /\ \E r \in Readers : rpc[r] = "panic_println"
  /\ mpc = "panic_poison"

\* C7: once the Mutex is poisoned the guarded integer never changes again, and
\* an actor that panicked stays where it is: it does not go on with its loop.
C7_NoMutationAfterPoison ==
  [][/\ poisoned => (val' = val /\ incs' = incs /\ count' = count)
     /\ \A r \in Readers :
          Panicked(rpc[r]) => (rpc'[r] = rpc[r] /\ rj'[r] = rj[r])
     /\ Panicked(mpc) => (mpc' = mpc /\ wj' = wj /\ joined' = joined)
     /\ \A a \in CActors :
          Panicked(cpc[a]) => (cpc'[a] = cpc[a] /\ ci'[a] = ci[a])]_vars

\* The writer's println! failed under the lock and a reader then gave up its
\* loop before its last iteration.
C7_Witness ==
  /\ poisoned
  /\ mpc = "panic_println"
  /\ \E r \in Readers : rpc[r] = "panic_poison" /\ rj[r] < ReaderIters

\* C8: read_write() has returned only if every reader it spawned has finished
\* all its iterations.
C8_ReturnAfterReaders ==
  mpc = "returned" =>
    \A r \in Readers : rpc[r] = "done" /\ rj[r] = ReaderIters

\* read_write() returned after waiting for a reader that made its last read
\* when the writer loop was over.
C8_Witness ==
  /\ mpc = "returned"
  /\ \E r \in Readers : Len(obs[r]) > 0 /\ obs[r][Len(obs[r])] = WriterIters

\* C9: when read_write() has returned, NumReaders readers were spawned (10 in
\* the source), each printed ReaderIters values (20), NumReaders * ReaderIters
\* in total (200), the writer made and printed WriterIters increments (20) of
\* 1 from the initial value 0, and the integer is WriterIters (20).
C9_ExactCounts ==
  mpc = "returned" =>
    /\ spawned = NumReaders
    /\ \A r \in Readers : Len(obs[r]) = ReaderIters
    /\ Cardinality({p \in Readers \X (1..ReaderIters) : p[2] \in DOMAIN obs[p[1]]})
         = NumReaders * ReaderIters
    /\ wj = WriterIters /\ incs = WriterIters /\ Len(wlog) = WriterIters
    /\ InitialValue = 0 /\ val = WriterIters

\* read_write() returned and every reader saw the first increment happen.
C9_Witness ==
  /\ mpc = "returned"
  /\ \A r \in Readers : obs[r][1] = 0 /\ obs[r][ReaderIters] > 0

Accessors ==
  Cardinality({r \in Readers : rpc[r] = "print"})
    + (IF mpc \in {"winc", "wprint"} THEN 1 ELSE 0)
    + Cardinality({a \in CActors : cpc[a] \in {"load", "store"}})
\* Number of threads inside the scope of a guard.
Holders ==
  Cardinality({r \in Readers : ReaderHolds(r)})
    + (IF WriterHolds THEN 1 ELSE 0)
    + Cardinality({a \in CActors : InIncr(a)})

\* C11: a thread at a statement that reads or writes the guarded integer is
\* the one holder of the locked Mutex, and every step that reads the integer
\* into a print or a local, or writes it, starts with the Mutex locked.
C11_AccessUnderLock ==
  /\ [](Accessors > 0 => (locked /\ Holders = 1))
  /\ [][(val' # val \/ obs' # obs \/ wlog' # wlog \/ count' # count \/ tmp' # tmp)
          => (locked /\ Holders = 1)]_vars

\* A reader is about to print the integer under the lock while the writer,
\* which has already incremented it, waits.
C11_Witness ==
  /\ \E r \in Readers : rpc[r] = "print"
  /\ locked /\ mpc = "wlock" /\ val > 0

\* C12: counter() prints nothing but the final value, once, and only when the
\* worker is joined and both actors have made their n calls of incr().
C12_PrintedOnceAfterJoin ==
  demo = "counter" =>
    /\ Len(printed) <= 1
    /\ cpc["main"] = "returned" => Len(printed) = 1
    /\ printed # <<>> =>
         /\ cpc["main"] = "returned" /\ cpc["worker"] = "done"
         /\ \A a \in CActors : ci[a] = n
         /\ printed = <<count>>

\* counter() printed its final value after the worker incremented first.
C12_Witness ==
  /\ demo = "counter" /\ Len(printed) = 1 /\ n = 1
  /\ order = <<"worker", "main">>

\* read_write(): the calling thread still owns its handle `lock`.
MainOwns == mpc \notin ({"off", "returned"} \cup PanicStates)
\* read_write(): the reader's closure still owns its clone `reader_lock`.
ReaderOwns(r) == rpc[r] \in {"lock", "print", "unlock"}
\* read_write(): the Mutex has been destroyed.
Destroyed == demo = "read_write" /\ strong = 0

\* C13 (as stated): the strong count is one for the calling thread plus one per
\* running reader, and in every execution the Mutex is destroyed only after
\* all spawned readers have been joined.
C13_DestroyedAfterJoins ==
  demo = "read_write" =>
    /\ strong = (IF MainOwns THEN 1 ELSE 0)
                  + Cardinality({r \in Readers : ReaderOwns(r)})
    /\ Destroyed => joined = NumReaders

\* C13 (amended): the same count; the Mutex is destroyed only when no handle
\* is left, and when read_write() returns normally that is at the return,
\* after all readers have been joined.
C13_DestroyedAfterLastDrop ==
  demo = "read_write" =>
    /\ strong = (IF MainOwns THEN 1 ELSE 0)
                  + Cardinality({r \in Readers : ReaderOwns(r)})
    /\ Destroyed => (~MainOwns /\ \A r \in Readers : ~ReaderOwns(r))
    /\ mpc = "returned" => (Destroyed /\ joined = NumReaders)
    /\ (mpc = "join" /\ joined = NumReaders) => strong = 1

\* read_write() returned: its handle was the last one.
C13_Witness ==
  mpc = "returned" /\ strong = 0 /\ joined = NumReaders /\ ~poisoned

\* C14: the Mutex is locked exactly while a guard is alive, and each iteration
\* of the writer loop holds it for one increment and one print: the lock is
\* free between the k-th and the (k+1)-th increment.
C14_WriterLockPerIteration ==
  demo = "read_write" =>
    /\ locked <=> (WriterHolds \/ \E r \in Readers : ReaderHolds(r))
    /\ mpc \in {"wlock", "winc"} => (incs = wj /\ Len(wlog) = wj)
    /\ mpc = "wprint" => (incs = wj + 1 /\ Len(wlog) = wj)
    /\ mpc = "wunlock" => (incs = wj + 1 /\ Len(wlog) = wj + 1)

\* The writer loop is over, and for every k from 1 to WriterIters - 1 (1..19
\* in the source) some reader printed k: it held the lock between the k-th and
\* the (k+1)-th increment.
C14_Witness ==
  /\ incs = WriterIters
  /\ \A k \in 1..(WriterIters - 1) :
       \E r \in Readers : \E i \in DOMAIN obs[r] : obs[r][i] = k

\* C15: a reader's print reports the value of the writer's latest print, or 0
\* when the writer has not printed yet.
C15_ReadsFollowWrites ==
  [][\A r \in Readers :
       obs'[r] # obs[r] =>
         obs'[r][Len(obs'[r])] =
           IF wlog = <<>> THEN 0 ELSE wlog[Len(wlog)]]_vars

\* A reader printed 0 before the first write event and the latest written
\* value after the second.
C15_Witness ==
  \E r \in Readers :
    /\ Len(obs[r]) = 2 /\ Len(wlog) = 2
    /\ obs[r][1] = 0 /\ obs[r][2] = wlog[2]

\* C16: the values one reader printed never decrease.
C16_ReaderMonotone ==
  \A r \in Readers : \A i, j \in DOMAIN obs[r] :
    i < j => obs[r][i] <= obs[r][j]

\* One reader printed two different values and another the same value twice.
C16_Witness ==
  /\ \E r \in Readers : Len(obs[r]) = 2 /\ obs[r][1] < obs[r][2]
  /\ \E r \in Readers : Len(obs[r]) = 2 /\ obs[r][1] = obs[r][2]

\* C17: the k-th value the writer printed is k, and after the writer loop
\* there are WriterIters of them (1, 2, ..., 20 in the source).
C17_WriterPrintsInOrder ==
  /\ \A k \in DOMAIN wlog : wlog[k] = k
  /\ Len(wlog) <= WriterIters
  /\ mpc \in {"join", "returned"} => Len(wlog) = WriterIters

\* The writer printed all its values and every reader took the lock between
\* two of the writes.
C17_Witness ==
  /\ Len(wlog) = WriterIters
  /\ \A r \in Readers :
       Len(obs[r]) > 0 /\ obs[r][1] \in 1..(WriterIters - 1)

\* C18: the integer changes only in the writer's `*val += 1`, by exactly 1, and
\* not while a reader holds the lock.
C18_OnlyWriterChanges ==
  [][/\ val' # val =>
          (mpc = "winc" /\ mpc' = "wprint" /\ val' = val + 1 /\ rpc' = rpc)
     /\ \A r \in Readers : ReaderHolds(r) => val' = val]_vars

\* A reader went through a critical section between the first and the second
\* increment, and the integer is still what it printed.
C18_Witness ==
  /\ mpc = "wlock" /\ val = 1
  /\ \E r \in Readers : rj[r] = 1 /\ obs[r] = <<1>> /\ rpc[r] = "lock"

====
